---- MODULE Spec2Model ----
(***************************************************************************)
(* Issues Register: the Express server (server.js: session cookies, the    *)
(* file backend with rotating backups, the Postgres backend) and the React *)
(* client's edit buffer with its debounced autosave (App.jsx).             *)
(***************************************************************************)
EXTENDS Integers, Sequences, FiniteSets, TLC

(* ------------------------------ bounds --------------------------------- *)
\* cap of the rotating backup set; process.env.MAX_BACKUPS, 30 when unset
MAX_BACKUPS == 2
\* register requests that may sit between their existence check and insert
MaxPending == 2

\* buffer mutations a client run makes
MaxEdits == 2
\* save requests a client has in flight at once
MaxInflight == 2
\* sign-in forms a client run submits
MaxSubmits == 1

Browsers == {"b1", "b2"}
\* the browser the React client runs in
B == "b1"
Emails == {"alice@example.com", "bob@example.com"}
\* "" stands for a missing (undefined) field of the request body
Passwords == {"secret1", "hunter22"}
NewPasswords == {"hunter22", "abc", ""}
Names == {"", "Al"}

(* ------------------------------ JSON values ---------------------------- *)
\* A JSON value as the handlers see it: its kind, and for an array its
\* elements (projects).  "undefined" is a missing body or field.
JArr(d) == [kind |-> "array", doc |-> d]
JObj == [kind |-> "object", doc |-> <<>>]
JStr == [kind |-> "string", doc |-> <<>>]
JNull == [kind |-> "null", doc |-> <<>>]
JUndef == [kind |-> "undefined", doc |-> <<>>]

DocA ==
  << [name |-> "p", issues |->
        << [issue |-> "i", statuses |-> <<"s1", "s2">>, closed |-> FALSE] >>] >>
DocB ==
  << [name |-> "q", issues |->
        << [issue |-> "j", statuses |-> <<"s2", "s1">>, closed |-> TRUE],
           [issue |-> "i", statuses |-> <<>>, closed |-> FALSE] >>],
     [name |-> "p", issues |-> <<>>] >>
ApiDocs == {<<>>, DocA, DocB}
\* bodies express.json() hands to PUT/POST /api/projects
PutBodies == {JArr(d) : d \in ApiDocs} \cup {JObj, JUndef}
\* the payload field of the body of POST /api/restore
RestorePayloads == {JArr(d) : d \in ApiDocs} \cup {JObj, JStr, JNull, JUndef}

\* Array.isArray
IsArray(j) == j.kind = "array"
\* value ?? []
OrEmptyArray(value) == IF value.kind \in {"undefined", "null"} THEN JArr(<<>>) ELSE value

(* ------------------------- JSON text (tokens) -------------------------- *)
Tk(k, s) == [k |-> k, s |-> s]
LB == Tk("p", "[")
RB == Tk("p", "]")
LC == Tk("p", "{")
RC == Tk("p", "}")
Key(s) == Tk("key", s)
StrTok(s) == Tk("str", s)
BoolTok(b) == Tk("lit", IF b THEN "true" ELSE "false")
At(t, i) == IF i \in 1..Len(t) THEN t[i] ELSE Tk("eof", "")

RECURSIVE StringsText(_)
StringsText(ss) ==
  IF ss = <<>> THEN <<>> ELSE <<StrTok(Head(ss))>> \o StringsText(Tail(ss))

IssueText(i) ==
  <<LC, Key("issue"), StrTok(i.issue), Key("statuses"), LB>> \o StringsText(i.statuses)
    \o <<RB, Key("closed"), BoolTok(i.closed), RC>>

RECURSIVE IssuesText(_)
IssuesText(is) ==
  IF is = <<>> THEN <<>> ELSE IssueText(Head(is)) \o IssuesText(Tail(is))

ProjectText(p) ==
  <<LC, Key("name"), StrTok(p.name), Key("issues"), LB>> \o IssuesText(p.issues) \o <<RB, RC>>

RECURSIVE ProjectsText(_)
ProjectsText(ps) ==
  IF ps = <<>> THEN <<>> ELSE ProjectText(Head(ps)) \o ProjectsText(Tail(ps))

\* JSON.stringify of a value the store is given (an array or an object)
JSONstringify(j) ==
  IF j.kind = "array" THEN <<LB>> \o ProjectsText(j.doc) \o <<RB>> ELSE <<LC, RC>>

RECURSIVE ParseStrings(_, _, _)
ParseStrings(t, i, acc) ==
  IF At(t, i).k = "str" THEN ParseStrings(t, i + 1, Append(acc, t[i].s))
  ELSE [v |-> acc, i |-> i]

ParseIssue(t, i) ==
  LET st == ParseStrings(t, i + 5, <<>>)
      j == st.i
  IN [ok |-> /\ At(t, i) = LC /\ At(t, i + 1) = Key("issue") /\ At(t, i + 2).k = "str"
             /\ At(t, i + 3) = Key("statuses") /\ At(t, i + 4) = LB
             /\ At(t, j) = RB /\ At(t, j + 1) = Key("closed")
             /\ At(t, j + 2).k = "lit" /\ At(t, j + 3) = RC,
      v |-> [issue |-> At(t, i + 2).s, statuses |-> st.v,
             closed |-> At(t, j + 2) = BoolTok(TRUE)],
      i |-> j + 4]

RECURSIVE ParseIssues(_, _, _)
ParseIssues(t, i, acc) ==
  IF At(t, i) = LC
  THEN LET r == ParseIssue(t, i)
       IN IF r.ok THEN ParseIssues(t, r.i, Append(acc, r.v))
          ELSE [ok |-> FALSE, v |-> acc, i |-> i]
  ELSE [ok |-> TRUE, v |-> acc, i |-> i]

ParseProject(t, i) ==
  LET is == ParseIssues(t, i + 5, <<>>)
      j == is.i
  IN [ok |-> /\ At(t, i) = LC /\ At(t, i + 1) = Key("name") /\ At(t, i + 2).k = "str"
             /\ At(t, i + 3) = Key("issues") /\ At(t, i + 4) = LB
             /\ is.ok /\ At(t, j) = RB /\ At(t, j + 1) = RC,
      v |-> [name |-> At(t, i + 2).s, issues |-> is.v],
      i |-> j + 2]

RECURSIVE ParseProjects(_, _, _)
ParseProjects(t, i, acc) ==
  IF At(t, i) = LC
  THEN LET r == ParseProject(t, i)
       IN IF r.ok THEN ParseProjects(t, r.i, Append(acc, r.v))
          ELSE [ok |-> FALSE, v |-> acc, i |-> i]
  ELSE [ok |-> TRUE, v |-> acc, i |-> i]

\* JSON.parse: ok is FALSE where JSON.parse throws
JSONparse(t) ==
  IF t = <<LC, RC>> THEN [ok |-> TRUE, val |-> JObj]
  ELSE LET ps == ParseProjects(t, 2, <<>>)
       IN [ok |-> At(t, 1) = LB /\ ps.ok /\ ps.i = Len(t) /\ At(t, ps.i) = RB,
           val |-> JArr(ps.v)]

(* ------------------------------ state ---------------------------------- *)
VARIABLES
  usePG,       \* !!process.env.DATABASE_URL
  users,       \* table users: row id is the index; email, password_hash, display_name
  appState,    \* table app_state: payload text per user id, <<>> when there is no row
  regPending,  \* register handlers between getUserByEmail and createUser
  dataFile,    \* text of data/projects.json
  backups,     \* texts of data/backups/*.json, newest (largest mtime) first
  cookie,      \* the "sess" cookie each browser holds: req.session
  last,        \* the request handled last and the response to it
  regOk,       \* emails for which a register call was answered ok
  tmpFile,     \* text of data/projects.json.tmp
  writer       \* the file system call writeAllFileAndBackup has reached, and its payload

\* the React client (App.jsx) in browser B
VARIABLES
  projects,    \* useState([]): the edit buffer
  loaded,      \* useState(false)
  saving,      \* useState(false)
  me,          \* me?.userId, 0 when me is null or userId is null
  timers,      \* pending setTimeout callbacks of the autosave effect: the buffer each closes over
  tlast,       \* the timer of the latest effect run is still pending (its cleanup clears it)
  flow,        \* the async chain in progress: mount, submit or doLogout, through refreshMe and loadProjects
  saves,       \* PUT /api/projects requests in flight and answered, not yet seen by the client
  edits,       \* calls of the mutation handlers so far
  dialog,      \* the last modal dialog of a handler call: the answer to its window.confirm or the text of its alert, "none" if it showed nothing
  submits,     \* forms submitted so far
  burst,       \* mutations since the last one that found no timer pending, and the PUTs sent since
  origin,      \* user id whose document the buffer was initialised from by a load, 0 when none
  e2e          \* progress of the register / first load / seed / save sequence

fsVars == <<tmpFile, writer>>
serverVars ==
  <<usePG, users, appState, regPending, dataFile, backups, cookie, last, regOk, tmpFile, writer>>
clientVars ==
  <<projects, loaded, saving, me, timers, tlast, flow, saves, edits, dialog, submits, burst, origin, e2e>>
vars ==
  <<usePG, users, appState, regPending, dataFile, backups, cookie, last, regOk, tmpFile, writer,
    projects, loaded, saving, me, timers, tlast, flow, saves, edits, dialog, submits, burst, origin, e2e>>

NoSession == [userId |-> 0, email |-> "", displayName |-> ""]

\* bcrypt.hash / bcrypt.compare
Hash(password) == <<"bcrypt", password>>

\* (mutant) a compare that accepts every password
Compare_AnyPassword(password, hash) == hash[1] = "bcrypt"

\* bcrypt.compare
Compare(password, hash) == hash[2] = password

\* (mutant) the select without its where clause: only the first row is looked at
getUserByEmail_FirstRow(email) ==
  IF Len(users) >= 1 /\ users[1].email = email THEN 1 ELSE 0

\* getUserByEmail: the row id, 0 when there is none
getUserByEmail(email) ==
  IF \E i \in 1..Len(users) : users[i].email = email
  THEN CHOOSE i \in 1..Len(users) : users[i].email = email
  ELSE 0

(* ------------------------------ storage -------------------------------- *)
\* readAllFile over a given text of the data file
readAllFileOf(file) ==
  LET r == JSONparse(file) IN IF r.ok THEN r.val ELSE JArr(<<>>)

readAllFile == readAllFileOf(dataFile)

\* readAllPG over a given content of app_state
readAllPGOf(table, userId) ==
  IF userId \in 1..Len(table) /\ table[userId] # <<>>
  THEN JSONparse(table[userId]).val
  ELSE JArr(<<>>)

readAllPG(userId) == readAllPGOf(appState, userId)

\* what GET /api/projects and GET /api/backup read
readAll(userId) == IF usePG THEN readAllPG(userId) ELSE readAllFile

\* the same after the step
readAllNext(userId) ==
  IF usePG THEN readAllPGOf(appState', userId) ELSE readAllFileOf(dataFile')

\* createBackup: the snapshot file is named by the millisecond; a second snapshot
\* in the same millisecond overwrites the newest file.  Then the files beyond
\* MAX_BACKUPS, oldest first, are unlinked.
createBackup(bk, snapshot, sameMs) ==
  LET all == IF sameMs /\ bk # <<>>
             THEN <<JSONstringify(snapshot)>> \o Tail(bk)
             ELSE <<JSONstringify(snapshot)>> \o bk
  IN IF Len(all) > MAX_BACKUPS THEN SubSeq(all, 1, MAX_BACKUPS) ELSE all

WriteOutcomes == {"ok", "okSameMs", "failData", "failBackup"}

\* (mutant) the data file merged with what it held: the projects of the payload
\* that are not in the file are added to it
writeAllFileAndBackup_Merge(value, w) ==
  LET payload == OrEmptyArray(value)
      old == readAllFile
      mix == IF IsArray(payload) /\ IsArray(old) /\ payload.doc # old.doc
             THEN JArr(old.doc \o payload.doc) ELSE payload
  IN /\ dataFile' = IF w = "failData" THEN dataFile ELSE JSONstringify(mix)
     /\ backups' = IF w \in {"failData", "failBackup"} THEN backups
                   ELSE createBackup(backups, payload, w = "okSameMs")
     /\ UNCHANGED appState

\* writeAllFileAndBackup(value); w tells where a file system call throws, if any
writeAllFileAndBackup(value, w) ==
  LET payload == OrEmptyArray(value)
  IN /\ dataFile' = IF w = "failData" THEN dataFile ELSE JSONstringify(payload)
     /\ backups' = IF w \in {"failData", "failBackup"} THEN backups
                   ELSE createBackup(backups, payload, w = "okSameMs")
     /\ UNCHANGED appState

\* (mutant) the upsert written "on conflict (user_id) do nothing", as in createUser
writeAllPG_DoNothing(userId, value, w) ==
  /\ appState' = IF userId \in 1..Len(appState) /\ appState[userId] = <<>>
                  THEN [appState EXCEPT ![userId] = JSONstringify(OrEmptyArray(value))]
                  ELSE appState
  /\ UNCHANGED <<dataFile, backups>>

\* (mutant) the upsert's update without a key: every row takes the payload
writeAllPG_AllRows(userId, value, w) ==
  /\ appState' = IF w = "failData" \/ userId \notin 1..Len(users) THEN appState
                  ELSE [u \in 1..Len(appState) |-> JSONstringify(OrEmptyArray(value))]
  /\ UNCHANGED <<dataFile, backups>>

\* writeAllPG(userId, value): one upsert; w = "failData" when the query throws
writeAllPG(userId, value, w) ==
  LET payload == OrEmptyArray(value)
  IN /\ appState' = IF w = "failData" \/ userId \notin 1..Len(users) THEN appState
                    ELSE [appState EXCEPT ![userId] = JSONstringify(payload)]
     /\ UNCHANGED <<dataFile, backups>>

WriteThrows(userId, w) ==
  IF usePG THEN w = "failData" \/ userId \notin 1..Len(users)
  ELSE w \in {"failData", "failBackup"}

writeAll(userId, value, w) ==
  /\ usePG => w \in {"ok", "failData"}
  /\ IF usePG THEN writeAllPG(userId, value, w) ELSE writeAllFileAndBackup(value, w)

\* no such file
Missing == <<Tk("eof", "")>>

\* no writeAllFileAndBackup call is in progress
NoWriter == [pc |-> "serve", payload |-> JUndef, prev |-> JUndef]

FsIdle == tmpFile = Missing /\ writer = NoWriter

(* ------------------------------ responses ------------------------------ *)
\* status 0: the handler has sent no response
\* args: the string fields of the request body the handler read
Response(op, sess, args, in, status, error, out, n, reads) ==
  [op |-> op, authed |-> sess.userId # 0, uid |-> sess.userId,
   args |-> args, in |-> in, status |-> status, error |-> error, out |-> out,
   n |-> n, reads |-> reads]

\* the record before any request was handled
Boot ==
  [op |-> "boot", authed |-> FALSE, uid |-> 0, args |-> <<>>,
   in |-> JUndef, status |-> 0, error |-> "", out |-> JUndef, n |-> 0, reads |-> {}]

\* requireAuth
requireAuth(sess) == sess.userId # 0

AuthRequired(op, sess) ==
  /\ last' = Response(op, sess, <<>>, JUndef, 401, "auth required", JUndef, 0, {})
  /\ UNCHANGED <<users, appState, regPending, dataFile, backups, cookie, regOk>>

(* ------------------------------ auth routes ---------------------------- *)
\* POST /api/auth/register up to the await of createUser
Register(b, email, password, name) ==
  IF email = "" \/ password = ""
  THEN /\ last' = Response("register", cookie[b], <<email, password>>, JUndef, 400,
                           "email and password required", JUndef, 0, {})
       /\ UNCHANGED <<users, appState, regPending, dataFile, backups, cookie, regOk>>
  ELSE IF usePG
  THEN IF getUserByEmail(email) # 0
       THEN /\ last' = Response("register", cookie[b], <<email, password>>, JUndef, 409,
                                "email already exists", JUndef, 0, {"users"})
            /\ UNCHANGED <<users, appState, regPending, dataFile, backups, cookie, regOk>>
       ELSE /\ Cardinality(regPending) < MaxPending
            /\ regPending' = regPending \cup
                 {[b |-> b, email |-> email, password |-> password, name |-> name]}
            /\ last' = Response("register", cookie[b], <<email, password>>, JUndef, 0, "", JUndef, 0, {"users"})
            /\ UNCHANGED <<users, appState, dataFile, backups, cookie, regOk>>
  ELSE /\ cookie' = [cookie EXCEPT ![b] = [userId |-> 1, email |-> email, displayName |-> name]]
       /\ regOk' = regOk \cup {email}
       /\ last' = Response("register", cookie[b], <<email, password>>, JUndef, 200, "", JUndef, 0, {})
       /\ UNCHANGED <<users, appState, regPending, dataFile, backups>>

\* createUser and the rest of the register handler; io = "fail" when the insert
\* into users throws, as it also does when the email exists by now (unique).
RegisterCreate(r, io) ==
  /\ r \in regPending
  /\ regPending' = regPending \ {r}
  /\ UNCHANGED <<dataFile, backups>>
  /\ IF io = "fail" \/ getUserByEmail(r.email) # 0
     THEN /\ last' = Response("createUser", cookie[r.b], <<r.email>>, JUndef, 500,
                              "failed to register", JUndef, 0, {})
          /\ UNCHANGED <<users, appState, cookie, regOk>>
     ELSE /\ users' = Append(users, [email |-> r.email, password_hash |-> Hash(r.password),
                                     display_name |-> r.name])
          /\ appState' = Append(appState, <<LB, RB>>)
          /\ cookie' = [cookie EXCEPT ![r.b].userId = Len(users) + 1]
          /\ regOk' = regOk \cup {r.email}
          /\ last' = Response("createUser", cookie[r.b], <<r.email>>, JUndef, 200, "",
                              JUndef, 0, {})

\* POST /api/auth/login; io = "fail" when a query throws
Login(b, email, password, io) ==
  /\ (~usePG \/ email = "" \/ password = "") => io = "ok"
  /\ UNCHANGED <<users, appState, regPending, dataFile, backups, regOk>>
  /\ IF email = "" \/ password = ""
     THEN /\ last' = Response("login", cookie[b], <<email, password>>, JUndef, 400,
                              "email and password required", JUndef, 0, {})
          /\ UNCHANGED cookie
     ELSE IF usePG
     THEN LET id == getUserByEmail(email)
          IN IF io = "fail"
             THEN /\ last' = Response("login", cookie[b], <<email, password>>, JUndef, 500, "failed to login",
                                      JUndef, 0, {})
                  /\ UNCHANGED cookie
             ELSE IF id = 0 \/ ~Compare(password, users[id].password_hash)
             THEN /\ last' = Response("login", cookie[b], <<email, password>>, JUndef, 401,
                                      "invalid credentials", JUndef, 0, {"users"})
                  /\ UNCHANGED cookie
             ELSE /\ cookie' = [cookie EXCEPT ![b].userId = id]
                  /\ last' = Response("login", cookie[b], <<email, password>>, JUndef, 200, "", JUndef, id,
                                      {"users"})
     ELSE /\ cookie' = [cookie EXCEPT ![b].userId = 1, ![b].email = email]
          /\ last' = Response("login", cookie[b], <<email, password>>, JUndef, 200, "", JUndef, 1, {})

\* POST /api/auth/logout
Logout(b) ==
  /\ cookie' = [cookie EXCEPT ![b] = NoSession]
  /\ last' = Response("logout", cookie[b], <<>>, JUndef, 200, "", JUndef, 0, {})
  /\ UNCHANGED <<users, appState, regPending, dataFile, backups, regOk>>

PwOutcomes == {"ok", "failSelect", "failUpdate"}

\* (mutant) updatePasswordPG without the bcrypt.compare of oldPassword
updatePasswordPG_NoCompare(userId, oldPassword, newPassword, io) ==
  IF io = "failSelect" THEN "db error"
  ELSE IF userId \notin 1..Len(users) THEN "user not found"
  ELSE IF io = "failUpdate" THEN "db error"
  ELSE ""

\* updatePasswordPG: the message of the error it throws, "" when it returns
updatePasswordPG(userId, oldPassword, newPassword, io) ==
  IF io = "failSelect" THEN "db error"
  ELSE IF userId \notin 1..Len(users) THEN "user not found"
  ELSE IF ~Compare(oldPassword, users[userId].password_hash) THEN "invalid credentials"
  ELSE IF io = "failUpdate" THEN "db error"
  ELSE ""

\* POST /api/auth/change-password
ChangePassword(sess, oldPassword, newPassword, io) ==
  /\ (~usePG \/ ~requireAuth(sess) \/ newPassword = "" \/ Len(newPassword) < 6) => io = "ok"
  /\ IF ~requireAuth(sess) THEN AuthRequired("changePassword", sess)
     ELSE /\ UNCHANGED <<appState, regPending, dataFile, backups, cookie, regOk>>
          /\ IF newPassword = "" \/ Len(newPassword) < 6
             THEN /\ last' = Response("changePassword", sess, <<oldPassword, newPassword>>, JUndef, 400,
                                      "newPassword must be at least 6 chars", JUndef, 0, {})
                  /\ UNCHANGED users
             ELSE IF usePG
             THEN LET e == updatePasswordPG(sess.userId, oldPassword, newPassword, io)
                  IN IF e # ""
                     THEN /\ last' = Response("changePassword", sess,
                                              <<oldPassword, newPassword>>, JUndef, 401, e,
                                              JUndef, 0, {"users"})
                          /\ UNCHANGED users
                     ELSE /\ users' = [users EXCEPT ![sess.userId].password_hash =
                                                      Hash(newPassword)]
                          /\ last' = Response("changePassword", sess,
                                              <<oldPassword, newPassword>>, JUndef, 200, "",
                                              JUndef, 0, {"users"})
             ELSE /\ last' = Response("changePassword", sess, <<oldPassword, newPassword>>,
                                      JUndef, 200, "", JUndef, 0, {})
                  /\ UNCHANGED users

(* ------------------------------ profile -------------------------------- *)
\* GET /api/me; io = "fail" when getUserById throws (the handler has no try)
GetMe(sess, io) ==
  /\ (~usePG \/ sess.userId = 0) => io = "ok"
  /\ UNCHANGED <<users, appState, regPending, dataFile, backups, cookie, regOk>>
  /\ IF sess.userId = 0
     THEN last' = Response("me", sess, <<>>, JUndef, 200, "", JUndef, 0, {})
     ELSE IF usePG
     THEN IF io = "fail"
          THEN last' = Response("me", sess, <<>>, JUndef, 0, "", JUndef, 0, {})
          ELSE last' = Response("me", sess, <<>>, JUndef, 200, "", JUndef,
                                IF sess.userId \in 1..Len(users)
                                THEN sess.userId ELSE 0, {"users"})
     ELSE last' = Response("me", sess, <<>>, JUndef, 200, "", JUndef,
                           sess.userId, {})

\* PATCH /api/me
PatchMe(b, displayName, io) ==
  /\ (~usePG \/ ~requireAuth(cookie[b])) => io = "ok"
  /\ IF ~requireAuth(cookie[b]) THEN AuthRequired("patchMe", cookie[b])
     ELSE /\ UNCHANGED <<appState, regPending, dataFile, backups, regOk>>
          /\ IF usePG
             THEN IF io = "fail"
                  THEN /\ last' = Response("patchMe", cookie[b], <<>>, JUndef, 500,
                                           "failed to update profile", JUndef, 0, {})
                       /\ UNCHANGED <<users, cookie>>
                  ELSE /\ users' = [i \in 1..Len(users) |->
                                      IF i = cookie[b].userId
                                      THEN [users[i] EXCEPT !.display_name = displayName]
                                      ELSE users[i]]
                       /\ last' = Response("patchMe", cookie[b], <<>>, JUndef, 200, "", JUndef, 0, {})
                       /\ UNCHANGED cookie
             ELSE /\ cookie' = [cookie EXCEPT ![b].displayName = displayName]
                  /\ last' = Response("patchMe", cookie[b], <<>>, JUndef, 200, "", JUndef, 0, {})
                  /\ UNCHANGED users

(* ------------------------------ data routes ---------------------------- *)
\* GET /api/projects; io = "fail" when the query throws
GetProjects(sess, io) ==
  /\ (~usePG \/ ~requireAuth(sess)) => io = "ok"
  /\ IF ~requireAuth(sess) THEN AuthRequired("getProjects", sess)
     ELSE /\ UNCHANGED <<users, appState, regPending, dataFile, backups, cookie, regOk>>
          /\ IF io = "fail"
             THEN last' = Response("getProjects", sess, <<>>, JUndef, 500,
                                   "failed to read projects", JUndef, 0, {})
             ELSE last' = Response("getProjects", sess, <<>>, JUndef, 200, "",
                                   readAll(sess.userId), 0, {"doc"})

\* the body of the POST and PUT /api/projects handlers
SaveProjects(op, sess, body, w) ==
  /\ ~requireAuth(sess) => w = "ok"
  /\ IF ~requireAuth(sess) THEN AuthRequired(op, sess)
     ELSE /\ UNCHANGED <<users, regPending, cookie, regOk>>
          /\ writeAll(sess.userId, OrEmptyArray(body), w)
          /\ IF WriteThrows(sess.userId, w)
             THEN last' = Response(op, sess, <<>>, JUndef, 500, "failed to save projects",
                                   JUndef, 0, {})
             ELSE last' = Response(op, sess, <<>>, body, 200, "", JUndef, 0, {})

\* POST /api/projects
PostProjects(sess, body, w) == SaveProjects("postProjects", sess, body, w)

\* PUT /api/projects
PutProjects(sess, body, w) == SaveProjects("putProjects", sess, body, w)

(* ------------------------------ backup / restore ----------------------- *)
\* (mutant) the export also writes a rotating snapshot
GetBackup_Snapshot(sess, io) ==
  /\ (~usePG \/ ~requireAuth(sess)) => io = "ok"
  /\ IF ~requireAuth(sess) THEN AuthRequired("backup", sess)
     ELSE /\ UNCHANGED <<users, appState, regPending, dataFile, cookie, regOk>>
          /\ backups' = IF usePG THEN backups
                         ELSE createBackup(backups, readAll(sess.userId), FALSE)
          /\ IF io = "fail"
             THEN last' = Response("backup", sess, <<>>, JUndef, 500,
                                   "failed to create backup", JUndef, 0, {})
             ELSE last' = Response("backup", sess, <<>>, JUndef, 200, "",
                                   readAll(sess.userId), 0, {"doc"})

\* GET /api/backup
GetBackup(sess, io) ==
  /\ (~usePG \/ ~requireAuth(sess)) => io = "ok"
  /\ IF ~requireAuth(sess) THEN AuthRequired("backup", sess)
     ELSE /\ UNCHANGED <<users, appState, regPending, dataFile, backups, cookie, regOk>>
          /\ IF io = "fail"
             THEN last' = Response("backup", sess, <<>>, JUndef, 500,
                                   "failed to create backup", JUndef, 0, {})
             ELSE last' = Response("backup", sess, <<>>, JUndef, 200, "",
                                   readAll(sess.userId), 0, {"doc"})

\* (mutant) the check written !payload
RestoreRejects_Falsy(payload) == payload.kind \in {"undefined", "null"}

\* !Array.isArray(payload)
RestoreRejects(payload) == ~IsArray(payload)

\* POST /api/restore
PostRestore(sess, payload, w) ==
  /\ (~requireAuth(sess) \/ RestoreRejects(payload)) => w = "ok"
  /\ IF ~requireAuth(sess) THEN AuthRequired("restore", sess)
     ELSE IF RestoreRejects(payload)
     THEN /\ last' = Response("restore", sess, <<>>, payload, 400, "payload must be an array",
                              JUndef, 0, {})
          /\ UNCHANGED <<users, appState, regPending, dataFile, backups, cookie, regOk>>
     ELSE /\ UNCHANGED <<users, regPending, cookie, regOk>>
          /\ writeAll(sess.userId, payload, w)
          /\ IF WriteThrows(sess.userId, w)
             THEN last' = Response("restore", sess, <<>>, payload, 500, "failed to restore",
                                   JUndef, 0, {})
             ELSE last' = Response("restore", sess, <<>>, payload, 200, "", JUndef, 0, {})

\* GET /api/backups, registered in file mode only, without requireAuth
GetBackups(sess) ==
  /\ ~usePG
  /\ last' = Response("backups", sess, <<>>, JUndef, 200, "", JUndef, Len(backups), {"backups"})
  /\ UNCHANGED <<users, appState, regPending, dataFile, backups, cookie, regOk>>

(* ------------------------------ client: edits -------------------------- *)
\* todayPrefix(): "YYYY-MM-DD: " of the current day
todayPrefix == "2024-05-17: "

\* value.trim() is empty
Blank(value) == value \in {"", " ", "  "}

NewIssue == [issue |-> todayPrefix, statuses |-> <<todayPrefix>>, closed |-> FALSE]

defaultProject == [name |-> "", issues |-> <<NewIssue>>]

\* splice(k, 1), positions counted from 1
RemoveAt(seq, k) == SubSeq(seq, 1, k - 1) \o SubSeq(seq, k + 1, Len(seq))

handleProjectNameChange(ps, p, value) == [ps EXCEPT ![p].name = value]

handleIssueChange(ps, p, i, value) == [ps EXCEPT ![p].issues[i].issue = value]

\* (mutant) the push without the closed test
handleStatusChange_IgnoreClosed(ps, p, i, s, value) ==
  LET issue == ps[p].issues[i]
      set == [issue.statuses EXCEPT ![s] = value]
  IN [ps EXCEPT ![p].issues[i].statuses =
        IF s = Len(set) /\ ~Blank(value) THEN Append(set, todayPrefix) ELSE set]

handleStatusChange(ps, p, i, s, value) ==
  LET issue == ps[p].issues[i]
      set == [issue.statuses EXCEPT ![s] = value]
  IN [ps EXCEPT ![p].issues[i].statuses =
        IF s = Len(set) /\ ~Blank(value) /\ ~issue.closed
        THEN Append(set, todayPrefix) ELSE set]

handleClosedToggle(ps, p, i) ==
  [ps EXCEPT ![p].issues[i].closed = ~ps[p].issues[i].closed]

addProject(ps) == Append(ps, defaultProject)

addIssue(ps, p) == [ps EXCEPT ![p].issues = Append(ps[p].issues, NewIssue)]

\* the three delete handlers after window.confirm returned true
deleteProject(ps, p) ==
  LET next == RemoveAt(ps, p) IN IF Len(next) > 0 THEN next ELSE <<defaultProject>>

deleteIssue(ps, p, i) ==
  LET cut == [ps EXCEPT ![p].issues = RemoveAt(ps[p].issues, i)]
      next == IF Len(cut[p].issues) = 0 THEN RemoveAt(cut, p) ELSE cut
  IN IF Len(next) > 0 THEN next ELSE <<defaultProject>>

\* (mutant) deleteStatus without the push into an emptied list
deleteStatus_NoRefill(ps, p, i, s) ==
  [ps EXCEPT ![p].issues[i].statuses = RemoveAt(ps[p].issues[i].statuses, s)]

deleteStatus(ps, p, i, s) ==
  LET list == RemoveAt(ps[p].issues[i].statuses, s)
  IN [ps EXCEPT ![p].issues[i].statuses = IF Len(list) = 0 THEN <<todayPrefix>> ELSE list]

\* text typed into a field
EditValues == {"x"}

(* ------------------------------ client: the visible list --------------- *)
\* the search box after toLowerCase().trim(): nothing, or the letter x
Queries == {"", "x"}

\* match(s): s.toLowerCase().includes(q), over the strings of this model
match(str, q) == q = "" \/ (q = "x" /\ str \in {"x", " x"})

\* visibleProjects: the filtered copies, each kept as the position of its
\* project in the buffer (src) and the positions of the issues it shows
visibleProjects(ps, hideClosed, q) ==
  LET shows(pr, i) ==
        /\ hideClosed => ~pr.issues[i].closed
        /\ q # "" => \/ match(pr.name, q)
                     \/ match(pr.issues[i].issue, q)
                     \/ \E n \in 1..Len(pr.issues[i].statuses) :
                          match(pr.issues[i].statuses[n], q)
      filtered == [p \in 1..Len(ps) |->
                     [src |-> p,
                      issues |-> SelectSeq([i \in 1..Len(ps[p].issues) |-> i],
                                           LAMBDA i : shows(ps[p], i))]]
  IN SelectSeq(filtered, LAMBDA r : Len(r.issues) > 0 \/ (~hideClosed /\ q = ""))

(* ------------------------------ client: effects ------------------------ *)
\* the request body on the wire: JSON.stringify in apiFetch, express.json() at the server
Wire(j) == JSONparse(JSONstringify(j)).val

\* (mutant) the autosave effect without its cleanup: the pending timer is not cleared
Autosave_NoCleanup(changed, ps, ld, m) ==
  IF ~changed THEN UNCHANGED <<timers, tlast>>
  ELSE IF ld /\ m # 0
       THEN timers' = Append(timers, ps) /\ tlast' = TRUE
       ELSE timers' = timers /\ tlast' = FALSE

\* the autosave effect, run after a render in which one of its dependencies
\* [projects, loaded, me?.userId] changed: the cleanup of the previous run clears
\* its timer, then a timer closing over the current buffer is set when
\* loaded && me?.userId
Autosave(changed, ps, ld, m) ==
  IF ~changed THEN UNCHANGED <<timers, tlast>>
  ELSE LET kept == IF tlast THEN SubSeq(timers, 1, Len(timers) - 1) ELSE timers
       IN IF ld /\ m # 0
          THEN timers' = Append(kept, ps) /\ tlast' = TRUE
          ELSE timers' = kept /\ tlast' = FALSE

NoBurst == [n |-> 0, sends |-> 0, put |-> JUndef]

\* a mutation handler that reaches its setProjects(next); answer is what its
\* window.confirm returned, "none" for the handlers that do not ask
SetProjects(next, answer) ==
  /\ me # 0
  /\ edits < MaxEdits
  /\ projects' = next
  /\ edits' = edits + 1
  /\ Autosave(TRUE, next, loaded, me)
  /\ burst' = IF ~loaded THEN NoBurst
              ELSE IF burst.n >= 1 /\ burst.sends = 0 /\ tlast
              THEN [burst EXCEPT !.n = burst.n + 1]
              ELSE [n |-> 1, sends |-> 0, put |-> JUndef]
  /\ e2e' = "none"
  /\ dialog' = answer
  /\ UNCHANGED <<loaded, saving, me, flow, saves, submits, origin>>
  /\ UNCHANGED serverVars

\* the handlers that ask nothing
Mutate(next) == SetProjects(next, "none")

\* (mutant) the handler goes on whatever window.confirm returned
Confirm_Ignored(confirm, next) ==
  SetProjects(next, IF confirm THEN "accepted" ELSE "declined")

\* if (!window.confirm(...)) return; ... setProjects(next)
Confirm(confirm, next) ==
  IF confirm THEN SetProjects(next, "accepted")
  ELSE /\ me # 0
       /\ edits < MaxEdits
       /\ edits' = edits + 1
       /\ dialog' = "declined"
       /\ UNCHANGED <<projects, loaded, saving, me, timers, tlast, flow, saves, submits,
                      burst, origin, e2e>>
       /\ UNCHANGED serverVars

EditProjectName ==
  \E p \in 1..Len(projects), value \in EditValues :
    Mutate(handleProjectNameChange(projects, p, value))

EditIssue ==
  \E p \in 1..Len(projects), value \in EditValues :
    \E i \in 1..Len(projects[p].issues) : Mutate(handleIssueChange(projects, p, i, value))

EditStatus ==
  \E p \in 1..Len(projects), value \in EditValues :
    \E i \in 1..Len(projects[p].issues) :
      \E s \in 1..Len(projects[p].issues[i].statuses) :
        Mutate(handleStatusChange(projects, p, i, s, value))

ToggleClosed ==
  \E p \in 1..Len(projects) :
    \E i \in 1..Len(projects[p].issues) : Mutate(handleClosedToggle(projects, p, i))

AddProject == Mutate(addProject(projects))

AddIssue == \E p \in 1..Len(projects) : Mutate(addIssue(projects, p))

DeleteProject ==
  \E p \in 1..Len(projects), confirm \in BOOLEAN :
    Confirm(confirm, deleteProject(projects, p))

DeleteIssue ==
  \E p \in 1..Len(projects), confirm \in BOOLEAN :
    \E i \in 1..Len(projects[p].issues) :
      Confirm(confirm, deleteIssue(projects, p, i))

DeleteStatus ==
  \E p \in 1..Len(projects), confirm \in BOOLEAN :
    \E i \in 1..Len(projects[p].issues) :
      \E s \in 1..Len(projects[p].issues[i].statuses) :
        Confirm(confirm, deleteStatus(projects, p, i, s))

(* ------------------------------ client: session ------------------------ *)
Idle ==
  [pc |-> "idle", seen |-> FALSE, email |-> "", password |-> "",
   ok |-> FALSE, data |-> JUndef, uid |-> 0, from |-> ""]

\* canSubmit of the AuthPanel form
canSubmit(email, password) == Len(email) > 3 /\ Len(password) >= 6

\* the request carries the session the cookie held when it was sent
Session(uid) == [NoSession EXCEPT !.userId = uid]

\* AuthPanel.submit up to its apiFetch; refreshMe is the one of the render the
\* form was submitted in, so its loadProjects sees that render's loaded
Submit(mode, email, password) ==
  /\ flow.pc = "idle"
  /\ me = 0
  /\ canSubmit(email, password)
  /\ submits < MaxSubmits
  /\ submits' = submits + 1
  /\ flow' = [Idle EXCEPT !.pc = mode, !.seen = loaded, !.email = email,
                          !.password = password]
  /\ e2e' = "none"
  /\ UNCHANGED <<projects, loaded, saving, me, timers, tlast, saves, edits, dialog, burst, origin>>
  /\ UNCHANGED serverVars

\* the register request at the server, up to createUser
SubmitRegister ==
  /\ flow.pc = "signup"
  /\ Register(B, flow.email, flow.password, "")
  /\ UNCHANGED <<usePG, fsVars>>
  /\ flow' = IF last'.status = 0 THEN [flow EXCEPT !.pc = "creating"]
             ELSE IF last'.status = 200 THEN [flow EXCEPT !.pc = "me"]
             ELSE Idle
  /\ e2e' = IF last'.status = 200 THEN "registered" ELSE "none"
  /\ UNCHANGED <<projects, loaded, saving, me, timers, tlast, saves, edits, dialog, submits, burst, origin>>

\* createUser and the register response; on ok submit goes on to refreshMe
SubmitRegisterCreate ==
  /\ flow.pc = "creating"
  /\ \E r \in regPending, io \in {"ok", "fail"} : RegisterCreate(r, io)
  /\ UNCHANGED <<usePG, fsVars>>
  /\ flow' = IF last'.status = 200 THEN [flow EXCEPT !.pc = "me"] ELSE Idle
  /\ e2e' = IF last'.status = 200 THEN "registered" ELSE "none"
  /\ UNCHANGED <<projects, loaded, saving, me, timers, tlast, saves, edits, dialog, submits, burst, origin>>

\* the login request and its response
SubmitLogin ==
  /\ flow.pc = "login"
  /\ \E io \in {"ok", "fail"} : Login(B, flow.email, flow.password, io)
  /\ UNCHANGED <<usePG, fsVars>>
  /\ flow' = IF last'.status = 200 THEN [flow EXCEPT !.pc = "me"] ELSE Idle
  /\ UNCHANGED <<projects, loaded, saving, me, timers, tlast, saves, edits, dialog, submits, burst, origin, e2e>>

\* AuthPanel.doLogout up to its apiFetch
DoLogout ==
  /\ flow.pc = "idle"
  /\ me # 0
  /\ flow' = [Idle EXCEPT !.pc = "logout", !.seen = loaded]
  /\ e2e' = "none"
  /\ UNCHANGED <<projects, loaded, saving, me, timers, tlast, saves, edits, dialog, submits, burst, origin>>
  /\ UNCHANGED serverVars

\* the logout request and its response; doLogout goes on to refreshMe
DoLogoutServed ==
  /\ flow.pc = "logout"
  /\ Logout(B)
  /\ UNCHANGED <<usePG, fsVars>>
  /\ flow' = [flow EXCEPT !.pc = "me"]
  /\ UNCHANGED <<projects, loaded, saving, me, timers, tlast, saves, edits, dialog, submits, burst, origin, e2e>>

\* apiFetch of submit or doLogout rejects (the request did not reach the server)
AuthFetchFails ==
  /\ flow.pc \in {"signup", "login", "logout"}
  /\ flow' = Idle
  /\ e2e' = "none"
  /\ UNCHANGED <<projects, loaded, saving, me, timers, tlast, saves, edits, dialog, submits, burst, origin>>
  /\ UNCHANGED serverVars

\* refreshMe: GET /api/me answered; with a userId, loadProjects runs up to its
\* apiFetch (or returns at once when its loaded is true); without one the
\* buffer is reset.  net = "fail": apiFetch rejects and the catch resets.
RefreshMe ==
  /\ flow.pc = "me"
  /\ \E net \in {"ok", "fail"} :
       /\ IF net = "ok" THEN GetMe(cookie[B], "ok")
          ELSE UNCHANGED <<users, appState, regPending, dataFile, backups, cookie, last, regOk>>
       /\ LET userId == IF net = "ok" THEN last'.n ELSE 0
          IN /\ me' = userId
             /\ IF userId # 0
                THEN /\ flow' = IF flow.seen THEN Idle
                                ELSE [flow EXCEPT !.pc = "load", !.uid = 0]
                     /\ Autosave(userId # me, projects, loaded, userId)
                     /\ UNCHANGED <<projects, loaded, burst, origin, e2e>>
                ELSE /\ flow' = Idle
                     /\ projects' = <<>>
                     /\ loaded' = FALSE
                     /\ Autosave(TRUE, <<>>, FALSE, userId)
                     /\ burst' = NoBurst
                     /\ origin' = 0
                     /\ e2e' = "none"
  /\ UNCHANGED <<usePG, fsVars>>
  /\ UNCHANGED <<saving, saves, edits, dialog, submits>>

\* GET /api/projects of loadProjects at the server; net = "fail": no response
LoadServed ==
  /\ flow.pc = "load"
  /\ \E net \in {"ok", "fail"}, io \in {"ok", "fail"} :
       IF net = "ok"
       THEN /\ GetProjects(cookie[B], io)
            /\ flow' = [flow EXCEPT !.pc = "loadResp", !.ok = last'.status = 200,
                                    !.data = last'.out, !.uid = last'.uid]
       ELSE /\ io = "ok"
            /\ flow' = [flow EXCEPT !.pc = "loadResp", !.ok = FALSE]
            /\ UNCHANGED <<users, appState, regPending, dataFile, backups, cookie, last, regOk>>
  /\ UNCHANGED <<usePG, fsVars>>
  /\ UNCHANGED <<projects, loaded, saving, me, timers, tlast, saves, edits, dialog, submits, burst, origin, e2e>>

\* (mutant) the buffer takes the response as it is
LoadedBuffer_AsIs(data) == data.doc

\* Array.isArray(data) && data.length ? data : [defaultProject()]
LoadedBuffer(data) ==
  IF IsArray(data) /\ Len(data.doc) > 0 THEN data.doc ELSE <<defaultProject>>

\* loadProjects after its await: the try branch or the catch branch
LoadDone ==
  /\ flow.pc = "loadResp"
  /\ flow' = Idle
  /\ loaded' = TRUE
  /\ IF flow.ok
     THEN /\ projects' = LoadedBuffer(flow.data)
          /\ Autosave(TRUE, projects', TRUE, me)
          /\ origin' = flow.uid
          /\ burst' = NoBurst
          /\ e2e' = IF e2e = "registered" THEN "seeded" ELSE "none"
     ELSE /\ Autosave(~loaded, projects, TRUE, me)
          /\ e2e' = "none"
          /\ UNCHANGED <<projects, origin, burst>>
  /\ dialog' = IF flow.from = "restore" THEN "Restore complete" ELSE dialog
  /\ UNCHANGED <<saving, me, saves, edits, submits>>
  /\ UNCHANGED serverVars

(* ------------------------------ client: restore ------------------------ *)
\* the file handed to restoreBackup: whether JSON.parse accepts its text, and
\* the payload field of the parsed value
BackupFiles ==
  {[parses |-> FALSE, payload |-> JUndef]}
    \cup {[parses |-> TRUE, payload |-> x] : x \in {JArr(DocB), JObj, JUndef}}

\* restoreBackup up to its apiFetch: an invalid file throws and the catch alerts
RestoreBackup ==
  /\ flow.pc = "idle"
  /\ me # 0
  /\ \E file \in BackupFiles :
       IF ~file.parses \/ ~IsArray(file.payload)
       THEN /\ dialog' = "Failed to restore"
            /\ UNCHANGED flow
       ELSE /\ flow' = [Idle EXCEPT !.pc = "restore", !.seen = loaded,
                                    !.data = Wire(file.payload), !.from = "restore"]
            /\ UNCHANGED dialog
  /\ UNCHANGED <<projects, loaded, saving, me, timers, tlast, saves, edits, submits, burst,
                 origin, e2e>>
  /\ UNCHANGED serverVars

\* POST /api/restore at the server; net = "fail": apiFetch rejects
RestoreServed ==
  /\ flow.pc = "restore"
  /\ \E net \in {"ok", "fail"}, w \in {"ok", "failData", "failBackup"} :
       IF net = "ok"
       THEN /\ PostRestore(cookie[B], flow.data, w)
            /\ flow' = [flow EXCEPT !.pc = "restoreResp", !.ok = last'.status = 200]
       ELSE /\ w = "ok"
            /\ flow' = [flow EXCEPT !.pc = "restoreResp", !.ok = FALSE]
            /\ UNCHANGED <<users, appState, regPending, dataFile, backups, cookie, last, regOk>>
  /\ UNCHANGED <<usePG, fsVars>>
  /\ UNCHANGED <<projects, loaded, saving, me, timers, tlast, saves, edits, dialog, submits,
                 burst, origin, e2e>>

\* restoreBackup after its apiFetch: setLoaded(false) and loadProjects(), whose
\* loaded is the one of the render restoreBackup was called in, then the alert;
\* or the catch and its alert
RestoreDone ==
  /\ flow.pc = "restoreResp"
  /\ IF flow.ok
     THEN /\ loaded' = FALSE
          /\ Autosave(loaded, projects, FALSE, me)
          /\ e2e' = "none"
          /\ IF flow.seen
             THEN flow' = Idle /\ dialog' = "Restore complete"
             ELSE flow' = [flow EXCEPT !.pc = "load", !.uid = 0] /\ UNCHANGED dialog
     ELSE /\ flow' = Idle
          /\ dialog' = "Failed to restore"
          /\ UNCHANGED <<loaded, timers, tlast, e2e>>
  /\ UNCHANGED <<projects, saving, me, saves, edits, submits, burst, origin>>
  /\ UNCHANGED serverVars

(* ------------------------------ client: autosave ----------------------- *)
\* a timer of the autosave effect fires: setSaving(true) and the PUT is sent
TimerFires ==
  \E k \in 1..Len(timers) :
    /\ Len(saves) < MaxInflight
    /\ timers' = RemoveAt(timers, k)
    /\ tlast' = IF k = Len(timers) THEN FALSE ELSE tlast
    /\ saving' = TRUE
    /\ saves' = Append(saves, [body |-> Wire(JArr(timers[k])), uid |-> cookie[B].userId,
                               origin |-> origin, seed |-> e2e = "seeded", st |-> "sent"])
    /\ burst' = IF burst.n >= 1
                THEN [burst EXCEPT !.sends = burst.sends + 1, !.put = Wire(JArr(timers[k]))]
                ELSE burst
    /\ e2e' = IF e2e = "seeded" THEN "sent" ELSE e2e
    /\ UNCHANGED <<projects, loaded, me, flow, edits, dialog, submits, origin>>
    /\ UNCHANGED serverVars

\* a PUT in flight is handled by the server (in any order), or is lost
SaveServed ==
  \E k \in 1..Len(saves), net \in {"ok", "fail"}, w \in {"ok", "failData"} :
    /\ saves[k].st = "sent"
    /\ IF net = "ok"
       THEN /\ PutProjects(Session(saves[k].uid), saves[k].body, w)
            /\ saves' = [saves EXCEPT ![k].st = IF last'.status = 200 THEN "ok" ELSE "err"]
       ELSE /\ w = "ok"
            /\ saves' = [saves EXCEPT ![k].st = "err"]
            /\ UNCHANGED <<users, appState, regPending, dataFile, backups, cookie, last, regOk>>
    /\ e2e' = IF saves[k].seed /\ e2e = "sent"
              THEN (IF saves'[k].st = "ok" THEN "stored" ELSE "none")
              ELSE e2e
    /\ UNCHANGED <<usePG, fsVars>>
    /\ UNCHANGED <<projects, loaded, saving, me, timers, tlast, flow, edits, dialog, submits, burst, origin>>

\* the then or the catch of the PUT: setSaving(false)
SaveDone ==
  \E k \in 1..Len(saves) :
    /\ saves[k].st # "sent"
    /\ saves' = RemoveAt(saves, k)
    /\ saving' = FALSE
    /\ UNCHANGED <<projects, loaded, me, timers, tlast, flow, edits, dialog, submits, burst, origin, e2e>>
    /\ UNCHANGED serverVars

(* ------------------------------ the client ----------------------------- *)
\* the state of App before its first effect has run
ClientOff ==
  /\ projects = <<>>
  /\ loaded = FALSE
  /\ saving = FALSE
  /\ me = 0
  /\ timers = <<>>
  /\ tlast = FALSE
  /\ flow = Idle
  /\ saves = <<>>
  /\ edits = 0
  /\ dialog = "none"
  /\ submits = 0
  /\ burst = NoBurst
  /\ origin = 0
  /\ e2e = "none"

\* One browser with the page open: the mount effect has called refreshMe.  One
\* account (relational backend) or none (file backend) exists, and a document is
\* stored.
ClientInit ==
  /\ usePG \in BOOLEAN
  /\ users = IF usePG
             THEN << [email |-> "alice@example.com", password_hash |-> Hash("secret1"),
                      display_name |-> ""] >>
             ELSE <<>>
  /\ appState = IF usePG THEN << JSONstringify(JArr(DocA)) >> ELSE <<>>
  /\ dataFile = IF usePG THEN <<LB, RB>> ELSE JSONstringify(JArr(DocA))
  /\ FsIdle
  /\ regPending = {}
  /\ backups = <<>>
  /\ cookie = [b \in Browsers |-> NoSession]
  /\ last = Boot
  /\ regOk = {}
  /\ projects = <<>>
  /\ loaded = FALSE
  /\ saving = FALSE
  /\ me = 0
  /\ timers = <<>>
  /\ tlast = FALSE
  /\ flow = [Idle EXCEPT !.pc = "me"]
  /\ saves = <<>>
  /\ edits = 0
  /\ dialog = "none"
  /\ submits = 0
  /\ burst = NoBurst
  /\ origin = 0
  /\ e2e = "none"

SubmitForm ==
  \E mode \in {"signup", "login"}, email \in Emails, password \in {"secret1", "abc"} :
    Submit(mode, email, password)

ClientNext ==
  \/ SubmitForm \/ SubmitRegister \/ SubmitRegisterCreate \/ SubmitLogin
  \/ DoLogout \/ DoLogoutServed \/ AuthFetchFails \/ RefreshMe \/ LoadServed \/ LoadDone
  \/ EditProjectName \/ EditIssue \/ EditStatus \/ ToggleClosed \/ AddProject \/ AddIssue
  \/ DeleteProject \/ DeleteIssue \/ DeleteStatus
  \/ TimerFires \/ SaveServed \/ SaveDone

SpecClient == ClientInit /\ [][ClientNext]_vars

(* ------------------------------ the editor ----------------------------- *)
\* The table of a logged-in user whose document is loaded and saved: every
\* handler of a row, with what can be typed in a field, and the autosave.
TypedValues == {"", " ", "x", " x", todayPrefix}

EditorInit ==
  /\ usePG \in BOOLEAN
  /\ projects \in {<<defaultProject>>, DocA, DocB}
  /\ users = IF usePG
             THEN << [email |-> "alice@example.com", password_hash |-> Hash("secret1"),
                      display_name |-> ""] >>
             ELSE <<>>
  /\ appState = IF usePG THEN << JSONstringify(JArr(projects)) >> ELSE <<>>
  /\ dataFile = IF usePG THEN <<LB, RB>> ELSE JSONstringify(JArr(projects))
  /\ backups = IF usePG THEN <<>> ELSE << JSONstringify(JArr(projects)) >>
  /\ FsIdle
  /\ regPending = {}
  /\ cookie = [b \in Browsers |->
                IF b # B THEN NoSession
                ELSE IF usePG THEN Session(1)
                ELSE [Session(1) EXCEPT !.email = "alice@example.com"]]
  /\ last = Boot
  /\ regOk = {}
  /\ loaded = TRUE
  /\ saving = FALSE
  /\ me = 1
  /\ timers = <<>>
  /\ tlast = FALSE
  /\ flow = Idle
  /\ saves = <<>>
  /\ edits = 0
  /\ dialog = "none"
  /\ submits = 0
  /\ burst = NoBurst
  /\ origin = 1
  /\ e2e = "none"

TypeProjectName ==
  \E p \in 1..Len(projects), value \in TypedValues :
    Mutate(handleProjectNameChange(projects, p, value))

TypeIssue ==
  \E p \in 1..Len(projects), value \in TypedValues :
    \E i \in 1..Len(projects[p].issues) : Mutate(handleIssueChange(projects, p, i, value))

TypeStatus ==
  \E p \in 1..Len(projects), value \in TypedValues :
    \E i \in 1..Len(projects[p].issues) :
      \E s \in 1..Len(projects[p].issues[i].statuses) :
        Mutate(handleStatusChange(projects, p, i, s, value))

EditorNext ==
  \/ TypeProjectName \/ TypeIssue \/ TypeStatus \/ ToggleClosed \/ AddProject \/ AddIssue
  \/ DeleteProject \/ DeleteIssue \/ DeleteStatus
  \/ TimerFires \/ SaveServed \/ SaveDone

SpecEdit == EditorInit /\ [][EditorNext]_vars

\* The same table with the Restore button: restoreBackup and the load it asks
\* for, beside projects being added (which arms the autosave timer).
RestoreNext ==
  \/ RestoreBackup \/ RestoreServed \/ RestoreDone \/ LoadServed \/ LoadDone
  \/ AddProject

SpecRestore == EditorInit /\ [][RestoreNext]_vars

\* Restore beside a running autosave: a project is added, its timer fires, the
\* PUT and the POST /api/restore reach the server in either order.  The load
\* that restoreBackup may send is not answered here.
RestoreAutosaveNext ==
  \/ RestoreBackup \/ RestoreServed \/ RestoreDone
  \/ (flow.pc = "idle" /\ AddProject) \/ TimerFires \/ SaveServed \/ SaveDone

SpecRestoreAutosave == EditorInit /\ [][RestoreAutosaveNext]_vars

(* ------------------------- the document API --------------------------- *)
\* Requests to the document, backup and session routes, in any order, from two
\* browsers.  In the relational backend two accounts are registered already.
Init ==
  /\ ClientOff
  /\ FsIdle
  /\ usePG \in BOOLEAN
  /\ users = IF usePG
             THEN << [email |-> "alice@example.com", password_hash |-> Hash("secret1"),
                      display_name |-> ""],
                     [email |-> "bob@example.com", password_hash |-> Hash("hunter22"),
                      display_name |-> ""] >>
             ELSE <<>>
  /\ appState = IF usePG THEN << <<LB, RB>>, <<LB, RB>> >> ELSE <<>>
  /\ regPending = {}
  /\ dataFile = <<LB, RB>>
  /\ backups = <<>>
  /\ cookie = [b \in Browsers |-> NoSession]
  /\ last = Boot
  /\ regOk = {}

ApiLogin ==
  \E b \in Browsers, e \in Emails \cup {""}, p \in Passwords \cup {""}, io \in {"ok", "fail"} :
    Login(b, e, p, io) /\ UNCHANGED <<usePG, clientVars, fsVars>>
ApiLogout == \E b \in Browsers : Logout(b) /\ UNCHANGED <<usePG, clientVars, fsVars>>
ApiGetProjects ==
  \E b \in Browsers, io \in {"ok", "fail"} : GetProjects(cookie[b], io) /\ UNCHANGED <<usePG, clientVars, fsVars>>
ApiPostProjects ==
  \E b \in Browsers, body \in PutBodies, w \in WriteOutcomes :
    PostProjects(cookie[b], body, w) /\ UNCHANGED <<usePG, clientVars, fsVars>>
ApiPutProjects ==
  \E b \in Browsers, body \in PutBodies, w \in WriteOutcomes :
    PutProjects(cookie[b], body, w) /\ UNCHANGED <<usePG, clientVars, fsVars>>
ApiGetBackup ==
  \E b \in Browsers, io \in {"ok", "fail"} : GetBackup(cookie[b], io) /\ UNCHANGED <<usePG, clientVars, fsVars>>
ApiPostRestore ==
  \E b \in Browsers, payload \in RestorePayloads, w \in WriteOutcomes :
    PostRestore(cookie[b], payload, w) /\ UNCHANGED <<usePG, clientVars, fsVars>>
ApiGetBackups == \E b \in Browsers : GetBackups(cookie[b]) /\ UNCHANGED <<usePG, clientVars, fsVars>>

Next ==
  \/ ApiLogin \/ ApiLogout \/ ApiGetProjects \/ ApiPostProjects \/ ApiPutProjects
  \/ ApiGetBackup \/ ApiPostRestore \/ ApiGetBackups

Spec == Init /\ [][Next]_vars

(* ------------------------- the account API ---------------------------- *)
\* Requests to the session and profile routes, starting with no account.
AuthInit ==
  /\ ClientOff
  /\ FsIdle
  /\ usePG \in BOOLEAN
  /\ users = <<>>
  /\ appState = <<>>
  /\ regPending = {}
  /\ dataFile = <<LB, RB>>
  /\ backups = <<>>
  /\ cookie = [b \in Browsers |-> NoSession]
  /\ last = Boot
  /\ regOk = {}

ApiRegister ==
  \E b \in Browsers, e \in Emails \cup {""}, p \in {"secret1", ""} :
    Register(b, e, p, "") /\ UNCHANGED <<usePG, clientVars, fsVars>>
ApiRegisterCreate ==
  \E r \in regPending, io \in {"ok", "fail"} : RegisterCreate(r, io) /\ UNCHANGED <<usePG, clientVars, fsVars>>
ApiChangePassword ==
  \E b \in Browsers, o \in Passwords \cup {""}, n \in NewPasswords, io \in PwOutcomes :
    ChangePassword(cookie[b], o, n, io) /\ UNCHANGED <<usePG, clientVars, fsVars>>
ApiGetMe == \E b \in Browsers, io \in {"ok", "fail"} : GetMe(cookie[b], io) /\ UNCHANGED <<usePG, clientVars, fsVars>>
ApiPatchMe ==
  \E b \in Browsers, n \in Names, io \in {"ok", "fail"} : PatchMe(b, n, io) /\ UNCHANGED <<usePG, clientVars, fsVars>>

AuthNext ==
  \/ ApiRegister \/ ApiRegisterCreate \/ ApiLogin \/ ApiLogout \/ ApiChangePassword
  \/ ApiGetMe \/ ApiPatchMe

SpecAuth == AuthInit /\ [][AuthNext]_vars

\* A second tab of browser B: it shares the session cookie, and registers or
\* logs in there while the first tab keeps its buffer and goes on saving.
TabRegister ==
  \E e \in Emails : Register(B, e, "secret1", "") /\ UNCHANGED <<usePG, clientVars, fsVars>>

TabLogin ==
  \E e \in Emails, p \in Passwords :
    Login(B, e, p, "ok") /\ UNCHANGED <<usePG, clientVars, fsVars>>

TabsNext ==
  \/ TabRegister \/ ApiRegisterCreate \/ TabLogin
  \/ AddProject \/ TimerFires \/ SaveServed \/ SaveDone

SpecTabs == EditorInit /\ [][TabsNext]_vars

(* ------------------------- the store, call by call ------------------- *)
\* writeAllFileAndBackup one file system call at a time, and the single upsert
\* of writeAllPG.  The file backend starts with or without a data file.
StoreInit ==
  /\ ClientOff
  /\ usePG \in BOOLEAN
  /\ users = IF usePG
             THEN << [email |-> "alice@example.com", password_hash |-> Hash("secret1"),
                      display_name |-> ""],
                     [email |-> "bob@example.com", password_hash |-> Hash("hunter22"),
                      display_name |-> ""] >>
             ELSE <<>>
  /\ appState = IF usePG THEN << <<LB, RB>>, <<LB, RB>> >> ELSE <<>>
  /\ regPending = {}
  /\ dataFile \in IF usePG THEN {Missing} ELSE {Missing, JSONstringify(JArr(DocA))}
  /\ tmpFile = Missing
  /\ writer = IF usePG THEN NoWriter ELSE [NoWriter EXCEPT !.pc = "boot"]
  /\ backups = <<>>
  /\ cookie = [b \in Browsers |-> NoSession]
  /\ last = Boot
  /\ regOk = {}

\* ensureStorage: if (!fs.existsSync(DATA_FILE)) fs.writeFileSync(DATA_FILE, "[]");
\* the file is created empty before its text is written
EnsureStorage ==
  /\ writer.pc = "boot"
  /\ IF dataFile = Missing
     THEN dataFile' = <<>> /\ writer' = [writer EXCEPT !.pc = "create"]
     ELSE UNCHANGED dataFile /\ writer' = NoWriter
  /\ UNCHANGED <<usePG, users, appState, regPending, backups, cookie, last, regOk, tmpFile>>
  /\ UNCHANGED clientVars

EnsureStorageWritten ==
  /\ writer.pc = "create"
  /\ dataFile' = <<LB, RB>>
  /\ writer' = NoWriter
  /\ UNCHANGED <<usePG, users, appState, regPending, backups, cookie, last, regOk, tmpFile>>
  /\ UNCHANGED clientVars

\* a handler calls writeAllFileAndBackup(value)
StoreBegin ==
  \E value \in PutBodies :
    /\ ~usePG
    /\ writer.pc = "serve"
    /\ writer' = [pc |-> "tmp", payload |-> OrEmptyArray(value), prev |-> readAllFile]
    /\ UNCHANGED <<usePG, users, appState, regPending, dataFile, backups, cookie, last, regOk,
                   tmpFile>>
    /\ UNCHANGED clientVars

\* (mutant) the text is written into the data file itself
TmpWrite_Direct(k) ==
  LET text == JSONstringify(writer.payload)
  IN /\ writer.pc = "tmp"
     /\ dataFile' = SubSeq(text, 1, k)
     /\ writer' = IF k = Len(text) THEN [writer EXCEPT !.pc = "backup"] ELSE writer
     /\ UNCHANGED tmpFile

\* writeFileAtomic: fs.writeFileSync(tmp, JSON.stringify(jsonVal)); the first k
\* characters are in the file
TmpWrite(k) ==
  LET text == JSONstringify(writer.payload)
  IN /\ writer.pc = "tmp"
     /\ tmpFile' = SubSeq(text, 1, k)
     /\ writer' = IF k = Len(text) THEN [writer EXCEPT !.pc = "rename"] ELSE writer
     /\ UNCHANGED dataFile

StoreTmpWrite ==
  \E k \in 0..Len(JSONstringify(writer.payload)) :
    /\ TmpWrite(k)
    /\ UNCHANGED <<usePG, users, appState, regPending, backups, cookie, last, regOk>>
    /\ UNCHANGED clientVars

\* writeFileAtomic: fs.renameSync(tmp, file)
StoreRename ==
  /\ writer.pc = "rename"
  /\ dataFile' = tmpFile
  /\ tmpFile' = Missing
  /\ writer' = [writer EXCEPT !.pc = "backup"]
  /\ UNCHANGED <<usePG, users, appState, regPending, backups, cookie, last, regOk>>
  /\ UNCHANGED clientVars

\* createBackup(payload), and writeAllFileAndBackup returns
StoreSnapshot ==
  \E sameMs \in BOOLEAN :
    /\ writer.pc = "backup"
    /\ backups' = createBackup(backups, writer.payload, sameMs)
    /\ writer' = NoWriter
    /\ UNCHANGED <<usePG, users, appState, regPending, dataFile, cookie, last, regOk, tmpFile>>
    /\ UNCHANGED clientVars

\* the file system call about to be made throws
StoreThrows ==
  /\ writer.pc \in {"tmp", "rename", "backup"}
  /\ writer' = NoWriter
  /\ UNCHANGED <<usePG, users, appState, regPending, dataFile, backups, cookie, last, regOk,
                 tmpFile>>
  /\ UNCHANGED clientVars

\* writeAllPG(userId, value): the one statement
StoreUpsert ==
  \E u \in 1..Len(users), value \in PutBodies, w \in {"ok", "failData"} :
    /\ usePG
    /\ writeAllPG(u, value, w)
    /\ UNCHANGED <<usePG, users, regPending, cookie, last, regOk, tmpFile, writer>>
    /\ UNCHANGED clientVars

StoreNext ==
  \/ EnsureStorage \/ EnsureStorageWritten \/ StoreBegin \/ StoreTmpWrite \/ StoreRename
  \/ StoreSnapshot \/ StoreThrows \/ StoreUpsert

SpecStore == StoreInit /\ [][StoreNext]_vars

(* ------------------------------ properties ----------------------------- *)
UserIds == IF usePG THEN 1..Len(users) ELSE {1}

\* C1: after a replace (PUT or POST /api/projects answered ok) of a document D,
\* whatever was stored before, read returns exactly D, order included, in both
\* backends.
C1_ReplaceThenRead ==
  (last.op \in {"putProjects", "postProjects"} /\ last.status = 200 /\ IsArray(last.in))
    => readAll(last.uid) = last.in

\* DocB replaced DocA (the older snapshot) and is what read returns
C1_Witness ==
  /\ ~usePG /\ last.op = "putProjects" /\ last.status = 200 /\ last.in = JArr(DocB)
  /\ Len(backups) = 2 /\ backups[2] = JSONstringify(JArr(DocA))
  /\ readAll(last.uid) = JArr(DocB)

ProtectedOps ==
  {"getProjects", "postProjects", "putProjects", "backup", "restore", "patchMe",
   "changePassword", "backups"}

\* C2: every document, backup, restore and profile route answers 401 "auth
\* required" and reads no stored state when the request carries no session.
C2_AuthGate ==
  (last.op \in ProtectedOps /\ ~last.authed)
    => (last.status = 401 /\ last.error = "auth required" /\ last.reads = {})

Short(password) == Len(password) < 6

\* C4 as stated: a wrong oldPassword gives 401, a newPassword of fewer than 6
\* characters gives 400, and the hash changes only when neither is the case.
C4_Original ==
  [][(last'.op = "changePassword" /\ last'.authed) =>
       LET old == last'.args[1]
           new == last'.args[2]
           verifies == /\ usePG /\ last'.uid \in 1..Len(users)
                       /\ Compare(old, users[last'.uid].password_hash)
       IN /\ ~verifies => (last'.status = 401 /\ users' = users)
          /\ Short(new) => (last'.status = 400 /\ users' = users)
          /\ users' # users => (verifies /\ ~Short(new))]_vars

\* C4 (amended): in the relational backend, with an active session: a newPassword
\* of fewer than 6 characters gives 400 and leaves the hash, whatever
\* oldPassword is; otherwise an oldPassword that does not verify gives 401 and
\* leaves the hash; the hash is replaced, by the hash of newPassword, only when
\* oldPassword verifies and newPassword has at least 6 characters.  The file
\* backend stores no hash: it answers 400 or ok by the length alone.
C4_ChangePasswordGate ==
  [][(last'.op = "changePassword" /\ last'.authed) =>
       LET old == last'.args[1]
           new == last'.args[2]
           u == last'.uid
       IN IF usePG
          THEN LET verifies == Compare(old, users[u].password_hash)
               IN /\ Short(new) => (last'.status = 400 /\ users' = users)
                  /\ (~Short(new) /\ ~verifies) => (last'.status = 401 /\ users' = users)
                  /\ users' # users =>
                       /\ verifies /\ ~Short(new)
                       /\ users' = [users EXCEPT ![u].password_hash = Hash(new)]
          ELSE /\ last'.status = IF Short(new) THEN 400 ELSE 200
               /\ UNCHANGED <<users, cookie>>]_vars

\* a wrong oldPassword refused after an earlier change went through
C4_Witness ==
  /\ usePG /\ last.op = "changePassword" /\ last.status = 401
  /\ last.error = "invalid credentials" /\ ~Short(last.args[2])
  /\ users[last.uid].password_hash = Hash("hunter22")

\* C5: POST /api/restore with a payload that is not an array answers 400 and
\* leaves the stored document and the backup set; with an array payload, when
\* the store does not fail, read returns exactly that payload afterwards.
C5_RestoreValidation ==
  [][(last'.op = "restore" /\ last'.authed) =>
       IF ~IsArray(last'.in)
       THEN last'.status = 400 /\ UNCHANGED <<users, appState, dataFile, backups>>
       ELSE /\ last'.status \in {200, 500}
            /\ last'.status = 200 => readAllNext(last'.uid) = last'.in]_vars

C5_Witness ==
  /\ last.op = "restore" /\ last.authed /\ last.status = 400 /\ last.in = JObj
  /\ readAll(last.uid) = JArr(DocB)

\* C6: GET /api/backup changes neither the stored document nor the backup set;
\* its payload is what read returns, and a second export with no write between
\* returns the same payload.
C6_ExportReadOnly ==
  [][last'.op = "backup" =>
       /\ UNCHANGED <<users, appState, dataFile, backups>>
       /\ last'.status = 200 => last'.out = readAll(last'.uid)
       /\ (last.op = "backup" /\ last.status = 200 /\ last'.status = 200
           /\ last'.uid = last.uid) => last'.out = last.out]_vars

C6_Witness ==
  /\ last.op = "backup" /\ last.status = 200 /\ last.out = JArr(DocB)
  /\ ~usePG /\ Len(backups) = 1

\* C7: for a loaded, logged-in client, after N >= 1 mutations each made while
\* the timer of the previous one was pending, exactly one timer is pending and
\* it carries the buffer as it stands; once it has fired exactly one PUT has been
\* sent, carrying the buffer after the N-th mutation, and no timer is pending.
C7_DebounceCoalescing ==
  burst.n >= 1 =>
    /\ loaded /\ me # 0
    /\ IF burst.sends = 0 THEN timers = <<projects>>
       ELSE burst.sends = 1 /\ timers = <<>> /\ burst.put = JArr(projects)

\* two mutations, one PUT
C7_Witness ==
  /\ burst.n = 2 /\ burst.sends = 1 /\ burst.put = JArr(projects) /\ timers = <<>>
  /\ Len(projects) = 2 /\ projects[1].name = "x"

\* C8: no PUT is sent that carries a buffer which no load has initialised.
C8_NoSaveBeforeLoad == \A k \in 1..Len(saves) : saves[k].origin # 0

\* exactly one project, unnamed, with one open issue that has one status line
OneProject(doc) ==
  /\ Len(doc) = 1 /\ doc[1].name = ""
  /\ Len(doc[1].issues) = 1 /\ ~doc[1].issues[1].closed
  /\ Len(doc[1].issues[1].statuses) = 1

\* C9 as stated: in either backend, whatever was stored before, after a register
\* answered ok read returns []; the client seeds one default project; once the
\* timer has fired with no edit between and the PUT is answered ok, read returns
\* that project.
C9_Original ==
  /\ e2e = "registered" => readAll(cookie[B].userId) = JArr(<<>>)
  /\ e2e \in {"seeded", "sent", "stored"} => OneProject(projects)
  /\ e2e = "seeded" => timers = <<projects>>
  /\ e2e = "stored" => readAll(cookie[B].userId) = JArr(projects)

\* C9 (amended): the same in the relational backend.  In the file backend a
\* register call changes neither the one shared document nor the backup set, so
\* read returns what was stored before.
C9_EndToEnd ==
  /\ [](usePG => C9_Original)
  /\ [][(~usePG /\ last'.op = "register") => UNCHANGED <<dataFile, backups>>]_vars

C9_Witness ==
  /\ usePG /\ e2e = "stored" /\ Len(users) = 2
  /\ readAll(1) = JArr(DocA) /\ readAll(2) = JArr(<<defaultProject>>)

\* C10: the stored document of every user is a sequence.
C10_DocumentIsSequence == \A u \in UserIds : IsArray(readAll(u))

WriteOps == {"putProjects", "postProjects", "restore"}

\* the account a session stands for: the user id, and in the file backend the
\* email the session was opened with
Account(sess) == <<sess.userId, sess.email>>

C12_AtomicReplace ==
  /\ [](writer.pc \in {"tmp", "rename", "backup"} =>
          readAllFile \in {writer.prev, writer.payload})
  /\ [](writer.pc = "create" => readAllFile = JArr(<<>>))
  /\ [][dataFile' # dataFile =>
          \/ writer.pc \in {"boot", "create"}
          \/ /\ writer.pc = "rename" /\ tmpFile = JSONstringify(writer.payload)
             /\ dataFile' = tmpFile]_vars
  /\ [][appState' # appState =>
          \E u \in 1..Len(users), value \in PutBodies :
            appState' = [appState EXCEPT ![u] = JSONstringify(OrEmptyArray(value))]]_vars

\* the temporary file is half written and the data file still reads as before
C12_Witness ==
  /\ writer.pc = "tmp" /\ writer.payload = JArr(DocB)
  /\ Len(tmpFile) = 5 /\ tmpFile = SubSeq(JSONstringify(JArr(DocB)), 1, 5)
  /\ readAllFile = JArr(DocA)

\* C13: in the file backend every replace or restore answered ok puts a snapshot
\* of the document just written in front of the backup set and keeps the
\* MAX_BACKUPS newest: the set is the snapshots of the most recent replaces.
C13_RotatingSnapshots ==
  [][(~usePG /\ last'.op \in WriteOps /\ last'.status = 200) =>
       LET all == <<JSONstringify(OrEmptyArray(last'.in))>> \o backups
       IN backups' = IF Len(all) > MAX_BACKUPS THEN SubSeq(all, 1, MAX_BACKUPS) ELSE all]_vars

C15_Original ==
  [][(/\ last'.op = "login" /\ last'.status # 500
      /\ last'.args[1] # "" /\ last'.args[2] # ""
      /\ LET id == getUserByEmail(last'.args[1])
         IN id = 0 \/ users[id].password_hash # Hash(last'.args[2]))
     => /\ last'.status = 401 /\ last'.error = "invalid credentials" /\ last'.out = JUndef
        /\ cookie' = cookie
        /\ <<users, appState, dataFile, backups>>' = <<users, appState, dataFile, backups>>]_vars

\* C15: in the relational backend the two failed logins (no account with the
\* email; an account, but another password) get the same answer, 401 "invalid
\* credentials" with no other field, and leave session and stored state as they
\* were.  The file backend has no accounts: every login with a non-empty email
\* and password is answered 200 and opens a session for user 1.
C15_LoginIndistinguishable ==
  [][(last'.op = "login" /\ last'.status # 500 /\ last'.args[1] # "" /\ last'.args[2] # "")
     => IF usePG
        THEN LET id == getUserByEmail(last'.args[1])
             IN (id = 0 \/ users[id].password_hash # Hash(last'.args[2]))
                => /\ last'.status = 401 /\ last'.error = "invalid credentials"
                   /\ last'.out = JUndef /\ last'.n = 0
                   /\ cookie' = cookie
                   /\ <<users, appState, dataFile, backups>>'
                        = <<users, appState, dataFile, backups>>
        ELSE /\ last'.status = 200
             /\ \E b \in Browsers :
                  cookie' = [cookie EXCEPT ![b].userId = 1, ![b].email = last'.args[1]]]_vars

\* a wrong password for an existing account was answered 401 while the other
\* email has no account
C15_Witness ==
  /\ usePG /\ last.op = "login" /\ last.status = 401
  /\ getUserByEmail(last.args[1]) # 0
  /\ \E e \in Emails : getUserByEmail(e) = 0

\* C16: GET /api/me always answers normally (status 200), whatever the session
\* and also when the lookup of the session's user fails; the answer carries no
\* user id when the request has no session, and the handler changes no state.
C16_CurrentUserNeverFails ==
  /\ [](last.op = "me" => (last.status = 200 /\ (~last.authed => last.n = 0)))
  /\ [][last'.op = "me" =>
          <<users, appState, dataFile, backups, cookie>>'
            = <<users, appState, dataFile, backups, cookie>>]_vars

\* C17: when refreshMe ends without a user (after logout, or an anonymous or
\* failed session check) that same step empties the buffer, clears loaded and
\* leaves no timer pending; while there is no user the buffer stays so; no PUT
\* is sent from then on before a load has succeeded again, and a buffer loaded
\* for one user is never shown or sent under another.
C17_ResetOnLogout ==
  /\ [][(flow.pc = "me" /\ flow'.pc # "me" /\ me' = 0)
          => (projects' = <<>> /\ ~loaded' /\ timers' = <<>>)]_vars
  /\ [](me = 0 => (projects = <<>> /\ ~loaded /\ timers = <<>>))
  /\ [][Len(saves') > Len(saves) => (origin # 0 /\ saves'[Len(saves')].origin = origin)]_vars
  /\ [](\A k \in 1..Len(saves) :
          (saves[k].origin # 0 /\ saves[k].uid # 0) => saves[k].origin = saves[k].uid)
  /\ []((me # 0 /\ loaded /\ origin # 0) => origin = me)

\* what handleStatusChange(p, i, s, value) does to issue (p, i), and that it
\* touches nothing else; the appended line is blank (asBlank) or todayPrefix()
StatusRule(p, i, s, value, asBlank) ==
  LET before == projects[p].issues[i]
      next == handleStatusChange(projects, p, i, s, value)
      after == next[p].issues[i]
      n == Len(before.statuses)
  IN /\ next = [projects EXCEPT ![p].issues[i].statuses = after.statuses]
     /\ SubSeq(after.statuses, 1, n) = [before.statuses EXCEPT ![s] = value]
     /\ IF s = n /\ ~Blank(value) /\ ~before.closed
        THEN /\ Len(after.statuses) = n + 1
             /\ IF asBlank THEN Blank(after.statuses[n + 1])
                ELSE after.statuses[n + 1] = todayPrefix
        ELSE Len(after.statuses) = n

C19_DeleteNeedsConfirm ==
  /\ [][(edits' # edits /\ dialog' = "declined")
          => /\ projects' = projects
             /\ <<timers, tlast>>' = <<timers, tlast>>
             /\ saves' = saves /\ saving' = saving
             /\ <<appState, dataFile, backups>>' = <<appState, dataFile, backups>>]_vars
  /\ [][(edits' # edits /\ dialog' # "none" /\ projects' # projects)
          => dialog' = "accepted"]_vars

\* the first handler called was a delete that the user declined: the buffer is
\* the loaded one and no timer is pending
C19_Witness ==
  /\ dialog = "declined" /\ edits = 1
  /\ me # 0 /\ loaded /\ projects = DocA
  /\ timers = <<>> /\ saves = <<>>

\* C20: a restore that fails changes nothing.  A POST /api/restore answered with
\* an error status (500 "failed to restore" included) leaves every stored
\* document as it was, and the step in which restoreBackup reports the failure
\* leaves the buffer and the loaded flag as they were.
C20_FailedRestoreUntouched ==
  /\ [][(last'.op = "restore" /\ last'.status # 200)
          => \A u \in UserIds : readAllNext(u) = readAll(u)]_vars
  /\ [][(flow.pc \in {"idle", "restoreResp"} /\ dialog' = "Failed to restore")
          => (projects' = projects /\ loaded' = loaded)]_vars

\* C21: every request handled gets a response, whatever fails inside its
\* handler: a status is sent, and an error status comes with an error message.
\* (A register handler recorded with status 0 is still awaiting createUser.)
C21_EveryRequestAnswered ==
  (last.op # "boot" /\ ~(last.op = "register" /\ regPending # {})) =>
    /\ last.status # 0
    /\ last.status >= 400 => last.error # ""

\* C22: an exception of the storage layer reaches the client as status 500 with
\* a fixed message: no response carries the exception's own message ("db error"
\* stands for it), and change-password answers 401 only for a missing session,
\* a wrong old password or a missing user row.
C22_StorageErrorsGeneric ==
  /\ last.error # "db error"
  /\ (last.op = "changePassword" /\ last.status = 401)
       => last.error \in {"auth required", "invalid credentials", "user not found"}

\* at least one project, every project with an issue, every issue with a status
WellShaped(doc) ==
  /\ Len(doc) >= 1
  /\ \A p \in 1..Len(doc) :
       /\ Len(doc[p].issues) >= 1
       /\ \A i \in 1..Len(doc[p].issues) : Len(doc[p].issues[i].statuses) >= 1

\* C23: a load of a well-shaped or of an empty document gives a well-shaped
\* buffer, and every handler call and every autosave step keeps it so: from a
\* state in which the buffer, the buffers the pending timers hold and the
\* bodies in flight are well-shaped, each step leads to such a state again.
C23_BufferShape ==
  /\ [](\A d \in ApiDocs :
          (d = <<>> \/ WellShaped(d)) => WellShaped(LoadedBuffer(JArr(d))))
  /\ [][(/\ WellShaped(projects)
          /\ (\A t \in 1..Len(timers) : WellShaped(timers[t]))
          /\ (\A k \in 1..Len(saves) : WellShaped(saves[k].body.doc)))
         => (/\ WellShaped(projects')
             /\ (\A t \in 1..Len(timers') : WellShaped(timers'[t]))
             /\ (\A k \in 1..Len(saves') : WellShaped(saves'[k].body.doc)))]_vars

\* the last status, issue or project of the buffer was deleted: the buffer is the
\* default project again, and a PUT of it is in flight
C23_Witness ==
  /\ dialog = "accepted" /\ edits = 1
  /\ projects = <<defaultProject>>
  /\ Len(saves) = 1 /\ saves[1].body = JArr(projects)

\* C24: whatever the filter (hide closed, search), a handler called from the row
\* shown at position (pIndex, iIndex) of the visible list does to the buffer
\* what it does when called on the project and issue that row shows.
C24_EditsAddressDisplayedRow ==
  \A hideClosed \in BOOLEAN, q \in Queries :
    LET vis == visibleProjects(projects, hideClosed, q)
    IN \A pIndex \in 1..Len(vis) :
         LET sp == vis[pIndex].src
         IN /\ handleProjectNameChange(projects, pIndex, "x")
                 = handleProjectNameChange(projects, sp, "x")
            /\ addIssue(projects, pIndex) = addIssue(projects, sp)
            /\ deleteProject(projects, pIndex) = deleteProject(projects, sp)
            /\ \A iIndex \in 1..Len(vis[pIndex].issues) :
                 LET si == vis[pIndex].issues[iIndex]
                 IN /\ handleIssueChange(projects, pIndex, iIndex, "x")
                         = handleIssueChange(projects, sp, si, "x")
                    /\ handleClosedToggle(projects, pIndex, iIndex)
                         = handleClosedToggle(projects, sp, si)
                    /\ deleteIssue(projects, pIndex, iIndex) = deleteIssue(projects, sp, si)

\* C25: the step in which restoreBackup announces "Restore complete" (its load,
\* if one was sent, having been answered) leaves the loaded flag true and the
\* buffer equal to what a load of the stored document, the restored payload,
\* gives; and whenever the logged-in client is idle its loaded flag is true, so
\* that the next edit arms the autosave timer.
C25_RestoreReloads ==
  /\ [][(/\ flow.pc \in {"restoreResp", "loadResp"} /\ flow'.pc = "idle"
          /\ dialog' = "Restore complete"
          /\ flow.ok)
         => (loaded' /\ projects' = LoadedBuffer(readAll(cookie[B].userId)))]_vars
  /\ []((flow.pc = "idle" /\ me # 0) => loaded)

\* C26: a restore that started while a timer was pending or a save was in
\* flight is not undone: whenever restoreBackup has announced "Restore complete"
\* and the client is quiescent (no flow, no timer, no save in flight or
\* unanswered, no edit since the announcement), the stored document is the
\* restored payload.  Under SpecRestoreAutosave projects are added only while no
\* restore is under way, so every timer and save alive during a restore was
\* there when it started.
C26_RestoreNotUndone ==
  (/\ dialog = "Restore complete" /\ flow.pc = "idle"
   /\ timers = <<>> /\ saves = <<>>)
    => \E file \in BackupFiles :
         IsArray(file.payload) /\ readAll(cookie[B].userId) = Wire(file.payload)

\* C27: every PUT of the client that the server applies is applied to the
\* document of the user whose document the buffer it carries was loaded from.
C27_SaveToOwnDocument ==
  \A k \in 1..Len(saves) : saves[k].st = "ok" => saves[k].uid = saves[k].origin

\* C28: two register requests for one new email, both past their existence
\* check before either inserts: no email ever has two users, and the request
\* whose insert comes second, the email existing by then, creates nothing and
\* is answered 409.
C28_ConcurrentRegister ==
  /\ [](\A i, j \in 1..Len(users) : users[i].email = users[j].email => i = j)
  /\ [][(\E r \in regPending :
            r \notin regPending' /\ getUserByEmail(r.email) # 0)
         => (last'.status = 409 /\ users' = users)]_vars

\* C29: the saving indicator is true exactly while at least one PUT of the
\* autosave is in flight (sent, its then or catch not yet run); with two
\* overlapping PUTs it stays true until the second has completed.
C29_SavingIndicator == saving <=> saves # <<>>

\* C30: a client session that has logged in and loaded the stored, non-empty
\* document (DocA) and has made no edit has sent no PUT /api/projects carrying
\* that document, and in the file backend no snapshot of it has entered the
\* backup set.
C30_NoEditNoReplace ==
  edits = 0 =>
    /\ \A k \in 1..Len(saves) :
         ~(saves[k].origin # 0 /\ saves[k].body = Wire(JArr(DocA)))
    /\ ~usePG => \A i \in 1..Len(backups) : backups[i] # JSONstringify(JArr(DocA))

====
